---- MODULE Spec2Model ----
(***************************************************************************)
(* A model of GarbageCollector.c: a mark-sweep collector embedded in a     *)
(* minimal stack VM.  The VM's fields and the heap cells are the state;    *)
(* pushInt, pushPair, pop and gc are the actions.  Every C function is an  *)
(* operator on a machine record                                            *)
(*   [stack, stackSize, numObjects, maxObjects, firstObject, heap, status] *)
(* so that a handler is the composition of the functions it calls.         *)
(***************************************************************************)
EXTENDS Integers, Sequences, FiniteSets, TLC

\* ------------------------------------------------------------- bounds ----
\* STACK_MAX_SIZE is 256 in the source (line 5); the model scales it down so
\* that a full stack is reachable.
STACK_MAX_SIZE == 3
\* numObjects is an unbounded counter: allocation is cut off at MaxAllocs.
MaxAllocs == 5
\* The object graphs handed to markAll and gc directly have up to MaxCells
\* objects and up to MaxCells stack entries.
MaxCells == 2

\* ---------------------------------------------------------- constants ----
INITIAL_GC_THRESHOLD == 16

NULL == 0
\* Heap cells malloc can hand out.  At most MaxAllocs objects are ever
\* created, so malloc never runs out of cells.
Addr == 1..MaxAllocs
\* The arguments pushInt is called with.  The value is stored in the object
\* and never read by the program, so two values stand for all ints.
Values == {0, 1}
Slots == 0..(STACK_MAX_SIZE - 1)

INT_TYPE == "INT_TYPE"
PAIR_TYPE == "PAIR_TYPE"

\* A cell that is not allocated (never allocated, or freed).
FreeCell ==
  [allocated |-> FALSE, objectType |-> INT_TYPE, marked |-> 0,
   next |-> NULL, value |-> 0, head |-> NULL, tail |-> NULL]

VARIABLES
  stack,        \* vm->stack: Slots -> Addr \cup {NULL}
  stackSize,    \* vm->stackSize
  numObjects,   \* vm->numObjects
  maxObjects,   \* vm->maxObjects
  firstObject,  \* vm->firstObject
  heap,         \* the Object cells: Addr -> record
  status,       \* "ok", or how the process ended: "overflow", "underflow"
                \* (exit(EXIT_FAILURE)), "undefined" (out-of-bounds store)
  lastOp,       \* history: the operation that produced this state
  lastWrite,    \* history: index of the stack slot the last operation
                \* stored to, -1 if it stored to none
  ret,          \* history: the set holding the reference the last operation
                \* returned to its caller (empty if it returned none)
  lastGc,       \* history: the machine when the last operation's collection
                \* started and when it ended (NoGc if it ran none)
  collectAgain  \* history: the last operation is a forced gc that directly
                \* follows a forced gc

vars == <<stack, stackSize, numObjects, maxObjects, firstObject, heap,
          status, lastOp, lastWrite, ret, lastGc, collectAgain>>

\* lastGc when the last operation ran no collection.
NoGc == [ran |-> FALSE]

\* The machine an operation starts from, as one record.  Two fields keep
\* what the operation has done so far: wrote is the index of the stack slot
\* it has stored to (-1: none), collected is the collection it has run (NoGc:
\* none).
State ==
  [stack |-> stack, stackSize |-> stackSize, numObjects |-> numObjects,
   maxObjects |-> maxObjects, firstObject |-> firstObject, heap |-> heap,
   status |-> status, wrote |-> -1, collected |-> NoGc]

\* The program's own fields of a machine (no history).
Fields(s) ==
  [stack |-> s.stack, stackSize |-> s.stackSize, numObjects |-> s.numObjects,
   maxObjects |-> s.maxObjects, firstObject |-> s.firstObject,
   heap |-> s.heap]

\* ------------------------------------------------------------- newVM ----
newVM ==
  [stack |-> [i \in Slots |-> NULL], stackSize |-> 0, numObjects |-> 0,
   maxObjects |-> INITIAL_GC_THRESHOLD, firstObject |-> NULL,
   heap |-> [a \in Addr |-> FreeCell], status |-> "ok", wrote |-> -1,
   collected |-> NoGc]

\* -------------------------------------------------------- push / pop ----
\* What the out-of-bounds store stack[STACK_MAX_SIZE] = value can leave in
\* the two ints that follow the array in the VM struct.  The store and the
\* increment of stackSize touch the same memory unsequenced, so stackSize
\* ends as the incremented index or as bits of the pointer (STACK_MAX_SIZE + 1
\* stands for a value above the capacity, -1 for a negative one); numObjects
\* keeps its value (4-byte pointers) or takes bits of the pointer (8-byte
\* ones).
ClobberedStackSize == {STACK_MAX_SIZE + 1, -1}
ClobberedNumObjects(s) == {s.numObjects, MaxAllocs + 1}

\* push: the set of machines it can leave (one, unless the store is out of
\* bounds).  The test is stackSize > STACK_MAX_SIZE, so a push at
\* stackSize = STACK_MAX_SIZE stores past the array; the run ends there with
\* status "undefined", since nothing the program does afterwards is defined.
\* The "overflow" exit needs stackSize > STACK_MAX_SIZE and is therefore
\* reached by no defined run.
push(s, value) ==
  IF s.stackSize > STACK_MAX_SIZE
  THEN {[s EXCEPT !.status = "overflow"]}
  ELSE IF s.stackSize \in Slots
       THEN {[s EXCEPT !.stack[s.stackSize] = value,
                       !.stackSize = s.stackSize + 1,
                       !.wrote = s.stackSize]}
       ELSE {[s EXCEPT !.status = "undefined", !.stackSize = x,
                       !.numObjects = n, !.wrote = s.stackSize] :
               x \in ClobberedStackSize, n \in ClobberedNumObjects(s)}

\* A pop that reports nothing on an empty stack and hands back NULL.
popSilent(s) ==
  IF ~(s.stackSize > 0)
  THEN [vm |-> s, ret |-> NULL]
  ELSE [vm |-> [s EXCEPT !.stackSize = s.stackSize - 1],
        ret |-> s.stack[s.stackSize - 1]]

\* pop: the machine it leaves and the reference it returns (ret is
\* meaningless when the process ended inside it).
pop(s) ==
  IF ~(s.stackSize > 0)
  THEN [vm |-> [s EXCEPT !.status = "underflow"], ret |-> NULL]
  ELSE [vm |-> [s EXCEPT !.stackSize = s.stackSize - 1],
        ret |-> s.stack[s.stackSize - 1]]

\* ------------------------------------------------------ mark / markAll ----
\* A mark that follows the head of a pair and forgets its tail.
RECURSIVE markHeadOnly(_, _)
markHeadOnly(h, object) ==
  IF h[object].marked # 0
  THEN h
  ELSE LET h1 == [h EXCEPT ![object].marked = 1]
       IN  IF h1[object].objectType = PAIR_TYPE
           THEN markHeadOnly(h1, h1[object].head)
           ELSE h1

RECURSIVE mark(_, _)
mark(h, object) ==
  IF h[object].marked # 0
  THEN h
  ELSE LET h1 == [h EXCEPT ![object].marked = 1]
       IN  IF h1[object].objectType = PAIR_TYPE
           THEN mark(mark(h1, h1[object].head), h1[object].tail)
           ELSE h1

RECURSIVE markFrom(_, _, _)
markFrom(s, h, i) ==
  IF i < s.stackSize THEN markFrom(s, mark(h, s.stack[i]), i + 1) ELSE h

\* A markAll that pops the entries it marks.
markAllDraining(s) ==
  [s EXCEPT !.heap = markFrom(s, s.heap, 0), !.stackSize = 0]

markAll(s) == [s EXCEPT !.heap = markFrom(s, s.heap, 0)]

\* -------------------------------------------------------------- sweep ----
\* A sweep loop that, having freed a cell, also steps over the cell after it.
RECURSIVE sweepFromSkipping(_, _, _)
sweepFromSkipping(s, prev, cur) ==
  IF cur = NULL
  THEN s
  ELSE IF s.heap[cur].marked = 0
       THEN LET nxt == s.heap[cur].next
                unlinked == IF prev = NULL
                            THEN [s EXCEPT !.firstObject = nxt]
                            ELSE [s EXCEPT !.heap[prev].next = nxt]
                freed == [unlinked EXCEPT !.heap[cur] = FreeCell]
            IN  IF nxt = NULL
                THEN freed
                ELSE sweepFromSkipping(freed, nxt, freed.heap[nxt].next)
       ELSE sweepFromSkipping([s EXCEPT !.heap[cur].marked = 0], cur,
                              s.heap[cur].next)

\* A sweep that looks at the first object of the chain only.
sweepHeadOnly(s) ==
  LET cur == s.firstObject
  IN  IF cur = NULL
      THEN s
      ELSE IF s.heap[cur].marked = 0
           THEN [s EXCEPT !.firstObject = s.heap[cur].next,
                          !.heap[cur] = FreeCell]
           ELSE [s EXCEPT !.heap[cur].marked = 0]

\* A sweep loop that leaves the flag of the cells it keeps set.
RECURSIVE sweepFromKeepingFlag(_, _, _)
sweepFromKeepingFlag(s, prev, cur) ==
  IF cur = NULL
  THEN s
  ELSE IF s.heap[cur].marked = 0
       THEN LET nxt == s.heap[cur].next
                unlinked == IF prev = NULL
                            THEN [s EXCEPT !.firstObject = nxt]
                            ELSE [s EXCEPT !.heap[prev].next = nxt]
                freed == [unlinked EXCEPT !.heap[cur] = FreeCell]
            IN  sweepFromKeepingFlag(freed, prev, nxt)
       ELSE sweepFromKeepingFlag(s, cur, s.heap[cur].next)

\* The loop of sweep.  `object` points at vm->firstObject (prev = NULL) or at
\* the next field of cell prev; cur is *object.
RECURSIVE sweepFrom(_, _, _)
sweepFrom(s, prev, cur) ==
  IF cur = NULL
  THEN s
  ELSE IF s.heap[cur].marked = 0
       THEN LET nxt == s.heap[cur].next
                unlinked == IF prev = NULL
                            THEN [s EXCEPT !.firstObject = nxt]
                            ELSE [s EXCEPT !.heap[prev].next = nxt]
                freed == [unlinked EXCEPT !.heap[cur] = FreeCell]
            IN  sweepFrom(freed, prev, nxt)
       ELSE sweepFrom([s EXCEPT !.heap[cur].marked = 0], cur,
                      s.heap[cur].next)

sweep(s) == sweepFrom(s, NULL, s.firstObject)

\* ----------------------------------------------------------------- gc ----
\* A gc that doubles the old threshold instead of the object count.
gcDoublingThreshold(s) ==
  LET swept == sweep(markAll(s))
      done == [swept EXCEPT !.maxObjects = s.maxObjects * 2]
  IN  [done EXCEPT !.collected = [ran |-> TRUE, before |-> Fields(s),
                                  after |-> Fields(done)]]

\* gc; it notes in collected the machine it started from and the one it
\* leaves.
gc(s) ==
  LET swept == sweep(markAll(s))
      done == [swept EXCEPT !.maxObjects = swept.numObjects * 2]
  IN  [done EXCEPT !.collected = [ran |-> TRUE, before |-> Fields(s),
                                  after |-> Fields(done)]]

\* ---------------------------------------------------------- newObject ----
\* malloc: the lowest free cell.
malloc(h) ==
  CHOOSE a \in Addr : ~h[a].allocated /\ \A b \in Addr : b < a => h[b].allocated

\* A trigger test that also fires above the threshold.
gcTriggeredAtOrAbove(s) == s.numObjects >= s.maxObjects

\* Whether newObject starts with a collection.
gcTriggered(s) == s.numObjects = s.maxObjects

\* newObject: the machine it leaves and the object it returns.
newObject(s, objectType) ==
  LET s1 == IF gcTriggered(s) THEN gc(s) ELSE s
      object == malloc(s1.heap)
      cell == [allocated |-> TRUE, objectType |-> objectType, marked |-> 0,
               next |-> s1.firstObject, value |-> 0, head |-> NULL,
               tail |-> NULL]
  IN  [vm |-> [s1 EXCEPT !.heap[object] = cell, !.firstObject = object,
                         !.numObjects = s1.numObjects + 1],
       ret |-> object]

\* ------------------------------------------------- pushInt / pushPair ----
\* pushInt: the set of machines it can leave.
pushInt(s, intValue) ==
  LET n == newObject(s, INT_TYPE)
      s1 == [n.vm EXCEPT !.heap[n.ret].value = intValue]
  IN  push(s1, n.ret)

\* A pushPair that stores the first value popped in head and the second in
\* tail.
pushPairSwapped(s) ==
  LET n == newObject(s, PAIR_TYPE)
      p1 == pop(n.vm)
  IN  IF p1.vm.status # "ok"
      THEN {[vm |-> p1.vm, ret |-> NULL]}
      ELSE LET s1 == [p1.vm EXCEPT !.heap[n.ret].head = p1.ret]
               p2 == pop(s1)
           IN  IF p2.vm.status # "ok"
               THEN {[vm |-> p2.vm, ret |-> NULL]}
               ELSE {[vm |-> r, ret |-> n.ret] :
                       r \in push([p2.vm EXCEPT !.heap[n.ret].tail = p2.ret],
                                  n.ret)}

\* pushPair: the set of outcomes it can have, each the machine it leaves and
\* the reference it returns (meaningless when the process ended inside it).
pushPair(s) ==
  LET n == newObject(s, PAIR_TYPE)
      p1 == pop(n.vm)
  IN  IF p1.vm.status # "ok"
      THEN {[vm |-> p1.vm, ret |-> NULL]}
      ELSE LET s1 == [p1.vm EXCEPT !.heap[n.ret].tail = p1.ret]
               p2 == pop(s1)
           IN  IF p2.vm.status # "ok"
               THEN {[vm |-> p2.vm, ret |-> NULL]}
               ELSE {[vm |-> r, ret |-> n.ret] :
                       r \in push([p2.vm EXCEPT !.heap[n.ret].head = p2.ret],
                                  n.ret)}

\* ------------------------------------------------------------ actions ----
Becomes(s) ==
  /\ stack' = s.stack
  /\ stackSize' = s.stackSize
  /\ numObjects' = s.numObjects
  /\ maxObjects' = s.maxObjects
  /\ firstObject' = s.firstObject
  /\ heap' = s.heap
  /\ status' = s.status
  /\ lastWrite' = s.wrote
  /\ lastGc' = s.collected

\* What the caller of an operation with outcome r gets back: nothing if the
\* process ended inside the operation.
Returned(r) == IF r.vm.status = "ok" THEN {r.ret} ELSE {}

Init ==
  /\ stack = newVM.stack
  /\ stackSize = newVM.stackSize
  /\ numObjects = newVM.numObjects
  /\ maxObjects = newVM.maxObjects
  /\ firstObject = newVM.firstObject
  /\ heap = newVM.heap
  /\ status = newVM.status
  /\ lastOp = "newVM"
  /\ lastWrite = -1
  /\ ret = {}
  /\ lastGc = NoGc
  /\ collectAgain = FALSE

\* The process is alive: it has not exited and has not left defined
\* behaviour.
Running == status = "ok"

PushInt ==
  /\ Running
  /\ numObjects < MaxAllocs
  /\ \E v \in Values : \E s \in pushInt(State, v) : Becomes(s)
  /\ lastOp' = "pushInt"
  /\ ret' = {}
  /\ collectAgain' = FALSE

PushPair ==
  /\ Running
  /\ numObjects < MaxAllocs
  /\ \E r \in pushPair(State) : Becomes(r.vm) /\ ret' = Returned(r)
  /\ lastOp' = "pushPair"
  /\ collectAgain' = FALSE

Pop ==
  /\ Running
  /\ Becomes(pop(State).vm)
  /\ ret' = Returned(pop(State))
  /\ lastOp' = "pop"
  /\ collectAgain' = FALSE

Gc ==
  /\ Running
  /\ Becomes(gc(State))
  /\ ret' = {}
  /\ lastOp' = "gc"
  /\ collectAgain' = (lastOp = "gc")

Next == PushInt \/ PushPair \/ Pop \/ Gc

Spec == Init /\ [][Next]_vars

\* ------------------------------------- the collector on arbitrary heaps ----
\* The API builds trees only.  mark, sweep and gc are also run on heaps a
\* driver can build by writing head and tail itself: any graph, cycles and
\* sharing included, and any assignment of mark flags.

\* The cells of a graph of n objects: an int, or a pair of any two of them.
GraphCells(n) ==
  {[allocated |-> TRUE, objectType |-> INT_TYPE, marked |-> 0, next |-> NULL,
    value |-> 0, head |-> NULL, tail |-> NULL]}
  \cup
  {[allocated |-> TRUE, objectType |-> PAIR_TYPE, marked |-> 0, next |-> NULL,
    value |-> 0, head |-> x, tail |-> y] : x \in 1..n, y \in 1..n}

\* The heap of n objects with cells c, linked newest first as newObject
\* links them: n -> n-1 -> ... -> 1 -> NULL.
GraphHeap(n, c) ==
  [a \in Addr |-> IF a <= n THEN [c[a] EXCEPT !.next = a - 1] ELSE FreeCell]

\* The heap of n ints linked in the order chain[1] -> ... -> chain[n] -> NULL
\* with mark flags flag[1..n].
FlagHeap(n, chain, flag) ==
  [a \in Addr |->
     IF \E i \in 1..n : chain[i] = a
     THEN LET i == CHOOSE j \in 1..n : chain[j] = a
          IN  [allocated |-> TRUE, objectType |-> INT_TYPE,
               marked |-> flag[i],
               next |-> IF i < n THEN chain[i + 1] ELSE NULL,
               value |-> 0, head |-> NULL, tail |-> NULL]
     ELSE FreeCell]

\* An object graph with unmarked cells and a stack of references into it.
GraphInit ==
  \E n \in 0..MaxCells : \E c \in [1..n -> GraphCells(n)] :
    \E k \in 0..(IF n = 0 THEN 0 ELSE MaxCells) : \E st \in [0..(k - 1) -> 1..n] :
      /\ heap = GraphHeap(n, c)
      /\ firstObject = n
      /\ stack = [i \in Slots |-> IF i < k THEN st[i] ELSE NULL]
      /\ stackSize = k
      /\ numObjects = n
      /\ lastOp = "graph"

\* A registry chain in any order with any mark flags, and an empty stack.
FlagInit ==
  \E n \in 0..MaxAllocs : \E chain \in [1..n -> 1..n] :
    /\ \A i, j \in 1..n : chain[i] = chain[j] => i = j
    /\ \E flag \in [1..n -> {0, 1}] :
         /\ heap = FlagHeap(n, chain, flag)
         /\ firstObject = IF n = 0 THEN NULL ELSE chain[1]
    /\ stack = newVM.stack
    /\ stackSize = 0
    /\ numObjects = n
    /\ lastOp = "flags"

HeapInit ==
  /\ GraphInit \/ FlagInit
  /\ maxObjects = INITIAL_GC_THRESHOLD
  /\ status = "ok"
  /\ lastWrite = -1
  /\ ret = {}
  /\ lastGc = NoGc
  /\ collectAgain = FALSE

\* The machine m a collector phase leaves, with the machine the phase
\* started from and the one it leaves noted as gc notes them (ran is FALSE:
\* no full collection).
Phase(m) ==
  [m EXCEPT !.collected = [ran |-> FALSE, before |-> Fields(State),
                           after |-> Fields(m)]]

\* markAll on a drawn graph.
HMarkAll ==
  /\ lastOp = "graph"
  /\ Becomes(Phase(markAll(State)))
  /\ lastOp' = "markAll"
  /\ ret' = {}
  /\ collectAgain' = FALSE

\* sweep on a drawn chain and flags.
HSweep ==
  /\ lastOp = "flags"
  /\ Becomes(Phase(sweep(State)))
  /\ lastOp' = "sweep"
  /\ ret' = {}
  /\ collectAgain' = FALSE

\* gc on a drawn graph.
HGc ==
  /\ lastOp = "graph"
  /\ Becomes(gc(State))
  /\ lastOp' = "gc"
  /\ ret' = {}
  /\ collectAgain' = FALSE

HeapNext == HMarkAll \/ HSweep \/ HGc

HeapSpec == HeapInit /\ [][HeapNext]_vars

\* -------------------------------------------- what the claims speak of ----
\* The registry chain of machine s: the cells from firstObject along next.
\* fuel stops the walk if the links ever formed a loop.
RECURSIVE ChainFrom(_, _, _)
ChainFrom(h, a, fuel) ==
  IF a = NULL \/ fuel = 0 THEN <<>> ELSE <<a>> \o ChainFrom(h, h[a].next, fuel - 1)

Chain(s) == ChainFrom(s.heap, s.firstObject, MaxAllocs + 1)

Registry(s) == {Chain(s)[i] : i \in 1..Len(Chain(s))}

\* The references in the stack entries 0..stackSize-1.
Roots(s) == {s.stack[i] : i \in {j \in Slots : j < s.stackSize}}

\* The least set that holds `from` and the head and tail of every pair in it.
RECURSIVE Closure(_, _)
Closure(h, from) ==
  LET more == from \cup UNION {{h[a].head, h[a].tail} :
                                 a \in {b \in from : h[b].objectType = PAIR_TYPE}}
  IN  IF more = from THEN from ELSE Closure(h, more)

\* The objects reachable from the stack through zero or more head/tail links.
Reach(s) == Closure(s.heap, Roots(s))

\* The objects mark(h, object) enters past its guard, in the order it enters
\* them.
RECURSIVE markEntered(_, _)
markEntered(h, object) ==
  IF h[object].marked # 0
  THEN <<>>
  ELSE LET h1 == [h EXCEPT ![object].marked = 1]
       IN  IF h1[object].objectType = PAIR_TYPE
           THEN <<object>> \o markEntered(h1, h1[object].head)
                \o markEntered(mark(h1, h1[object].head), h1[object].tail)
           ELSE <<object>>

\* The objects the loop of markAll enters past the guard of mark.
RECURSIVE markAllEntered(_, _, _)
markAllEntered(s, h, i) ==
  IF i < s.stackSize
  THEN markEntered(h, s.stack[i]) \o markAllEntered(s, mark(h, s.stack[i]), i + 1)
  ELSE <<>>

\* The objects the loop of sweep examines (the values *object takes), in
\* order.
RECURSIVE sweepExamined(_, _, _)
sweepExamined(s, prev, cur) ==
  IF cur = NULL
  THEN <<>>
  ELSE IF s.heap[cur].marked = 0
       THEN LET nxt == s.heap[cur].next
                unlinked == IF prev = NULL
                            THEN [s EXCEPT !.firstObject = nxt]
                            ELSE [s EXCEPT !.heap[prev].next = nxt]
                freed == [unlinked EXCEPT !.heap[cur] = FreeCell]
            IN  <<cur>> \o sweepExamined(freed, prev, nxt)
       ELSE <<cur>> \o sweepExamined([s EXCEPT !.heap[cur].marked = 0], cur,
                                     s.heap[cur].next)

\* No element occurs twice in seq.
NoRepeat(seq) == \A i, j \in 1..Len(seq) : seq[i] = seq[j] => i = j

Elements(seq) == {seq[i] : i \in 1..Len(seq)}

\* Object a of heap h is a pair that reaches itself through head/tail links.
OnCycle(h, a) ==
  /\ h[a].objectType = PAIR_TYPE
  /\ a \in Closure(h, {h[a].head, h[a].tail})

\* ------------------------------------------------------------- claims ----

\* C1 (reachability soundness): after a collection, forced or triggered by
\* an allocation, every object that was reachable from a stack entry when
\* the collection started is still allocated, still linked in the registry
\* chain, and keeps its type and payload.
C1_ReachableSurvive ==
  lastGc.ran =>
    \A a \in Reach(lastGc.before) :
      /\ a \in Registry(lastGc.after)
      /\ lastGc.after.heap[a].allocated
      /\ lastGc.after.heap[a].objectType = lastGc.before.heap[a].objectType
      /\ lastGc.after.heap[a].value = lastGc.before.heap[a].value
      /\ lastGc.after.heap[a].head = lastGc.before.heap[a].head
      /\ lastGc.after.heap[a].tail = lastGc.before.heap[a].tail

\* A collection that freed an object while a pair and both its fields,
\* reachable from a stack entry, were in the registry.
C1_Witness ==
  /\ lastGc.ran
  /\ \E a \in Reach(lastGc.before) :
       /\ lastGc.before.heap[a].objectType = PAIR_TYPE
       /\ a \in Registry(lastGc.after)
  /\ Registry(lastGc.before) # Registry(lastGc.after)

\* C2 (reachability completeness): after a collection the registry chain
\* holds exactly the objects that were reachable from the stack when the
\* collection started; every other cell is free.
C2_RegistryIsReachable ==
  lastGc.ran =>
    /\ Registry(lastGc.after) = Reach(lastGc.before)
    /\ \A a \in Addr :
         lastGc.after.heap[a].allocated <=> a \in Reach(lastGc.before)

\* A collection that started with a pair in the registry that no stack entry
\* reached, and with a reachable object too.
C2_Witness ==
  /\ lastGc.ran
  /\ \E a \in Registry(lastGc.before) \ Reach(lastGc.before) :
       lastGc.before.heap[a].objectType = PAIR_TYPE
  /\ Reach(lastGc.before) # {}

\* C3 (object count): between operations numObjects equals the number of
\* objects linked in the registry chain.
C3_CountIsRegistrySize ==
  Running => numObjects = Len(Chain(State))

\* C4 (threshold self-tuning): right after a collection that leaves k
\* objects in the registry, maxObjects = 2 * k.
C4_ThresholdTwiceLive ==
  lastGc.ran => lastGc.after.maxObjects = 2 * Len(Chain(lastGc.after))

\* C5 (collect on an empty stack frees everything): after a forced gc with
\* an empty stack, numObjects = 0 and maxObjects = 0.
C5_EmptyStackCollectsAll ==
  (lastOp = "gc" /\ stackSize = 0) => (numObjects = 0 /\ maxObjects = 0)

\* C6 (collect with nothing to free): a forced gc started where the registry
\* is not empty and every registry object is reachable from the stack leaves the chain of n objects
\* and the stack as they were, numObjects = n and maxObjects = 2 * n.
C6_NothingToFree ==
  (/\ lastOp = "gc"
   /\ Registry(lastGc.before) # {}
   /\ Registry(lastGc.before) \subseteq Reach(lastGc.before)) =>
    LET n == Len(Chain(lastGc.before))
    IN  /\ Chain(lastGc.after) = Chain(lastGc.before)
        /\ lastGc.after.stack = lastGc.before.stack
        /\ lastGc.after.stackSize = lastGc.before.stackSize
        /\ lastGc.after.numObjects = n
        /\ lastGc.after.maxObjects = 2 * n

\* C7 (idempotence of forced collection): a forced gc that directly follows
\* a forced gc leaves numObjects, the registry (chain and cells) and
\* maxObjects as the first one left them.
C7_CollectIdempotent ==
  collectAgain =>
    /\ lastGc.after.numObjects = lastGc.before.numObjects
    /\ Chain(lastGc.after) = Chain(lastGc.before)
    /\ lastGc.after.heap = lastGc.before.heap
    /\ lastGc.after.maxObjects = lastGc.before.maxObjects

\* Two forced collections in a row, the first of which freed an object and
\* kept one.
C7_Witness ==
  /\ collectAgain
  /\ Registry(lastGc.after) # {}
  /\ lastGc.after.numObjects > Len(Chain(lastGc.after))

\* C8 (stack overflow): the stack depth stays within 0..STACK_MAX_SIZE, every
\* stack store goes to a slot 0..STACK_MAX_SIZE-1, and the process never
\* leaves defined behaviour on a push.
C8_StackWithinCapacity ==
  /\ 0 <= stackSize /\ stackSize <= STACK_MAX_SIZE
  /\ lastWrite \in Slots \cup {-1}
  /\ status # "undefined"

\* C9 (stack underflow): pop on an empty stack ends the process with the
\* underflow error, returns no reference and leaves stackSize at 0; pushPair
\* with fewer than 2 entries ends the process with the underflow error,
\* stores to no stack slot and returns no reference.
C9_Underflow ==
  [][/\ (lastOp' = "pop" /\ stackSize = 0) =>
          (status' = "underflow" /\ ret' = {} /\ stackSize' = 0)
     /\ (lastOp' = "pop") => stackSize' >= 0
     /\ (lastOp' = "pushPair" /\ stackSize < 2) =>
          /\ status' = "underflow"
          /\ ret' = {}
          /\ lastWrite' = -1
          /\ stack' = stack
          /\ stackSize' = 0]_vars

\* pushPair ended in underflow after popping the only entry of the stack.
C9_Witness ==
  /\ lastOp = "pushPair"
  /\ status = "underflow"
  /\ stackSize = 0
  /\ \E a \in Addr : heap[a].objectType = PAIR_TYPE /\ heap[a].tail # NULL

\* C10 (no partial mutation on error): when pushInt or pushPair ends in the
\* overflow or underflow error, the registry chain, numObjects, maxObjects,
\* the stack and stackSize are as they were before the call.
C10_ErrorLeavesStateUntouched ==
  [][(lastOp' \in {"pushInt", "pushPair"} /\
      status' \in {"overflow", "underflow"}) =>
       Fields(State)' = Fields(State)]_vars

\* C12 (no dangling references): while the process has not exited, every
\* stack entry below stackSize is a slot of the array and refers to an
\* object in the registry, and the head and tail of every pair in the
\* registry refer to objects in the registry.
C12_NoDanglingReferences ==
  status \notin {"overflow", "underflow"} =>
    /\ \A i \in 0..(stackSize - 1) :
         i \in Slots /\ stack[i] \in Registry(State)
    /\ \A a \in Registry(State) :
         heap[a].objectType = PAIR_TYPE =>
           (heap[a].head \in Registry(State) /\ heap[a].tail \in Registry(State))

\* C13 (collection trigger): pushInt and pushPair run a collection if and
\* only if numObjects = maxObjects when they are called; that collection
\* starts from the machine as the call found it and has ended, threshold
\* update included, before the new object takes its cell and is linked in
\* front of the chain the collection left; pop runs no collection.
C13_CollectionTrigger ==
  [][/\ (lastOp' \in {"pushInt", "pushPair"}) =>
          /\ lastGc'.ran <=> (numObjects = maxObjects)
          /\ lastGc'.ran =>
               /\ lastGc'.before = Fields(State)
               /\ lastGc'.after.maxObjects = 2 * lastGc'.after.numObjects
               /\ \A a \in Registry(lastGc'.after) :
                    lastGc'.after.heap[a].marked = 0
               /\ ~lastGc'.after.heap[firstObject'].allocated
               /\ heap'[firstObject'].next = lastGc'.after.firstObject
               /\ maxObjects' = lastGc'.after.maxObjects
     /\ (lastOp' = "pop") => ~lastGc'.ran
     /\ lastGc'.ran => (lastOp' = "gc" \/ numObjects = maxObjects)]_vars

\* pushPair ran a collection that freed an object and kept one, and then
\* pushed its pair.
C13_Witness ==
  /\ lastOp = "pushPair"
  /\ status = "ok"
  /\ lastGc.ran
  /\ Registry(lastGc.after) # {}
  /\ Registry(lastGc.after) # Registry(lastGc.before)

\* C16 (mark flags are transient): in every state every object in the
\* registry has marked = 0, and so has every object in the registry a
\* collection left behind.
C16_FlagsClearBetweenOperations ==
  /\ \A a \in Registry(State) : heap[a].marked = 0
  /\ lastGc.ran =>
       \A a \in Registry(lastGc.after) : lastGc.after.heap[a].marked = 0

\* A forced collection that kept a pair, whose flag mark had set.
C16_Witness ==
  /\ lastOp = "gc"
  /\ \E a \in Registry(State) :
       heap[a].objectType = PAIR_TYPE /\ a \in Reach(lastGc.before)

\* C17 (collector frame): a collection leaves the stack array and stackSize
\* as they were, and leaves the type, value, head and tail of every object it
\* keeps as they were.
C17_CollectorFrame ==
  lastGc.ran =>
    /\ lastGc.after.stack = lastGc.before.stack
    /\ lastGc.after.stackSize = lastGc.before.stackSize
    /\ \A a \in Registry(lastGc.after) :
         /\ lastGc.after.heap[a].allocated
         /\ lastGc.after.heap[a].objectType = lastGc.before.heap[a].objectType
         /\ lastGc.after.heap[a].value = lastGc.before.heap[a].value
         /\ lastGc.after.heap[a].head = lastGc.before.heap[a].head
         /\ lastGc.after.heap[a].tail = lastGc.before.heap[a].tail

\* A collection run with two stack entries, one of them a pair, that freed an
\* object.
C17_Witness ==
  /\ lastGc.ran
  /\ lastGc.before.stackSize >= 2
  /\ \E a \in Roots(lastGc.before) :
       lastGc.before.heap[a].objectType = PAIR_TYPE
  /\ \E a \in Roots(lastGc.before) :
       lastGc.before.heap[a].objectType = INT_TYPE /\
       lastGc.before.heap[a].value = 1
  /\ Registry(lastGc.after) # Registry(lastGc.before)

\* C18 (pushPair operand order and stack effect): a pushPair that succeeds
\* on a stack ..., a, b leaves ..., pair with stackSize one less; the pair is
\* a PAIR_TYPE object with head = a and tail = b, the entries below are
\* untouched, and the reference returned is the pair on top of the stack.
C18_PushPairOrder ==
  [][(lastOp' = "pushPair" /\ status' = "ok") =>
       LET pair == stack'[stackSize' - 1]
       IN  /\ stackSize >= 2
           /\ stackSize' = stackSize - 1
           /\ heap'[pair].allocated
           /\ heap'[pair].objectType = PAIR_TYPE
           /\ heap'[pair].head = stack[stackSize - 2]
           /\ heap'[pair].tail = stack[stackSize - 1]
           /\ \A i \in 0..(stackSize' - 2) : stack'[i] = stack[i]
           /\ ret' = {pair}
           /\ lastWrite' = stackSize' - 1]_vars

\* A pushPair that made a pair of two different ints, 0 pushed before 1, with
\* an entry left below it.
C18_Witness ==
  /\ lastOp = "pushPair"
  /\ status = "ok"
  /\ stackSize = 2
  /\ LET pair == stack[stackSize - 1]
     IN  /\ heap[pair].head # heap[pair].tail
         /\ heap[heap[pair].head].value = 0
         /\ heap[heap[pair].tail].value = 1

\* C19 (count within threshold): while the process runs,
\* numObjects <= maxObjects.
C19_CountWithinThreshold ==
  Running => numObjects <= maxObjects

\* C20 (the trigger stays ahead): while the process runs there is a number
\* k >= 0 of further allocations, each adding one to numObjects, after which
\* the trigger test of newObject fires.
C20_TriggerStaysAhead ==
  Running =>
    \E k \in 0..(maxObjects + 1) :
      gcTriggered([State EXCEPT !.numObjects = numObjects + k])

\* C11 (cycle safety): on any object graph, cycles included, the mark phase
\* of gc ends having entered each object past the guard at most once, and
\* gc frees every object no stack entry reaches, so a cycle that is not
\* reachable is freed, and keeps every object that is reachable.
C11_CycleSafety ==
  (lastOp = "gc" /\ lastGc.ran) =>
    LET b == lastGc.before
        entered == markAllEntered(b, b.heap, 0)
    IN  /\ NoRepeat(entered)
        /\ Elements(entered) = Reach(b)
        /\ Registry(lastGc.after) = Reach(b)
        /\ \A a \in Addr \ Reach(b) : lastGc.after.heap[a] = FreeCell

\* gc ran on a graph with a cycle no stack entry reached and a cycle a stack
\* entry reached.
C11_Witness ==
  /\ lastOp = "gc"
  /\ lastGc.ran
  /\ \E a \in Registry(lastGc.before) \ Reach(lastGc.before) :
       OnCycle(lastGc.before.heap, a)
  /\ \E a \in Reach(lastGc.before) : OnCycle(lastGc.before.heap, a)

\* C14 (mark phase postcondition): from a registry with every flag 0,
\* markAll leaves marked = 1 on exactly the objects reachable from the stack
\* entries 0..stackSize-1 and changes nothing else; it sets each flag once
\* (no object is entered past the guard twice), and marking a flagged object
\* again changes nothing.
C14_MarkPostcondition ==
  lastOp = "markAll" =>
    LET b == lastGc.before
        a == lastGc.after
        entered == markAllEntered(b, b.heap, 0)
    IN  /\ {x \in Registry(a) : a.heap[x].marked = 1} = Reach(b)
        /\ a = [b EXCEPT !.heap =
                  [x \in Addr |->
                     IF x \in Reach(b) THEN [b.heap[x] EXCEPT !.marked = 1]
                     ELSE b.heap[x]]]
        /\ NoRepeat(entered)
        /\ Elements(entered) = Reach(b)
        /\ \A x \in Reach(b) : mark(a.heap, x) = a.heap

\* markAll ran with an object referenced by a stack entry and by the head and
\* the tail of a pair that a stack entry references too.
C14_Witness ==
  /\ lastOp = "markAll"
  /\ \E x, p \in Roots(lastGc.before) :
       /\ x # p
       /\ lastGc.before.heap[p].objectType = PAIR_TYPE
       /\ lastGc.before.heap[p].head = x
       /\ lastGc.before.heap[p].tail = x

\* C15 (sweep link integrity): for every chain and every assignment of
\* flags, sweep leaves the chain of the flagged objects in their order, ended
\* by NULL, each with its flag reset and its payload as it was; it frees
\* every other object of the chain, and examines each object of the chain
\* once, in chain order.
C15_SweepLinkIntegrity ==
  lastOp = "sweep" =>
    LET b == lastGc.before
        a == lastGc.after
        Kept(x) == b.heap[x].marked # 0
        kept == SelectSeq(Chain(b), Kept)
    IN  /\ Chain(a) = kept
        /\ a.firstObject = IF kept = <<>> THEN NULL ELSE kept[1]
        /\ \A i \in 1..Len(kept) :
             a.heap[kept[i]] =
               [b.heap[kept[i]] EXCEPT
                  !.marked = 0,
                  !.next = IF i < Len(kept) THEN kept[i + 1] ELSE NULL]
        /\ \A x \in Addr \ Elements(kept) : a.heap[x] = FreeCell
        /\ sweepExamined(b, NULL, b.firstObject) = Chain(b)

\* sweep ran on a chain whose first and last objects and two neighbours were
\* unflagged, with flagged objects to keep.
C15_Witness ==
  /\ lastOp = "sweep"
  /\ LET b == lastGc.before
         c == Chain(lastGc.before)
     IN  /\ Len(c) >= 4
         /\ b.heap[c[1]].marked = 0
         /\ b.heap[c[Len(c)]].marked = 0
         /\ \E i \in 2..(Len(c) - 2) :
              b.heap[c[i]].marked = 0 /\ b.heap[c[i + 1]].marked = 0
         /\ \E i \in 1..Len(c) : b.heap[c[i]].marked = 1
         /\ Len(Chain(lastGc.after)) >= 1

====
